---- MODULE Spec2Model ----
(***************************************************************************)
(* Model of server.py, the Mistral x PostgreSQL MCP server: the query      *)
(* validator, the five tools, the two resources and the start-up probe.    *)
(* Query texts are sequences of one-character strings, so that upper(),    *)
(* strip(), startswith() and the `in` substring test are computed and not  *)
(* assumed.                                                                *)
(***************************************************************************)
EXTENDS Integers, Sequences, FiniteSets, TLC

VARIABLES
    phase,      \* of the process: "start", "probing", "serving", "exited"
    exitCode,   \* the exit status once phase = "exited"
    probe,      \* the start-up probe: how many were made, its connection
    store,      \* the database
    open,       \* the connections the database holds open, by id
    inv,        \* the tool and resource invocations, one record per slot
    log,        \* the ERROR lines of the server-side log
    input,      \* SpecValidate, SpecScore: the argument
    output      \* SpecValidate, SpecScore: <<>>, then <<the result>>

vars == <<phase, exitCode, probe, store, open, inv, log, input, output>>

serverVars == <<phase, exitCode, probe, store, open, inv, log>>

----------------------------------------------------------------------------
(* Bounds of the model.                                                    *)

\* longest query text of SpecValidate, counted in fragments
MaxFrags == 3

\* largest ticket count fed to the health-score rule in SpecScore
MaxTickets == 7

\* most connections the database holds open at once
MaxConns == 2

\* invocations in flight at once in SpecConcurrent
MaxCalls == 2

----------------------------------------------------------------------------
(* Python str operations used by validate_query (server.py:62-70).         *)

LowerCase ==
    <<"a", "b", "c", "d", "e", "f", "g", "h", "i", "j", "k", "l", "m",
      "n", "o", "p", "q", "r", "s", "t", "u", "v", "w", "x", "y", "z">>

UpperCase ==
    <<"A", "B", "C", "D", "E", "F", "G", "H", "I", "J", "K", "L", "M",
      "N", "O", "P", "Q", "R", "S", "T", "U", "V", "W", "X", "Y", "Z">>

Whitespace == {" ", "\t", "\n"}

upperChar(c) ==
    IF \E i \in 1..26 : LowerCase[i] = c
    THEN UpperCase[CHOOSE i \in 1..26 : LowerCase[i] = c]
    ELSE c

\* str.upper()
upper(s) == [i \in 1..Len(s) |-> upperChar(s[i])]

RECURSIVE lstrip(_)
lstrip(s) ==
    IF s # <<>> /\ Head(s) \in Whitespace THEN lstrip(Tail(s)) ELSE s

RECURSIVE rstrip(_)
rstrip(s) ==
    IF s # <<>> /\ s[Len(s)] \in Whitespace
    THEN rstrip(SubSeq(s, 1, Len(s) - 1))
    ELSE s

\* str.strip()
strip(s) == rstrip(lstrip(s))

\* str.startswith(p)
startswith(s, p) == Len(s) >= Len(p) /\ SubSeq(s, 1, Len(p)) = p

\* `p in s` on strings: a left-to-right scan for p
RECURSIVE contains(_, _)
contains(s, p) ==
    IF Len(s) < Len(p) THEN FALSE
    ELSE IF startswith(s, p) THEN TRUE
    ELSE contains(Tail(s), p)

----------------------------------------------------------------------------
(* Query validation (server.py:57-74).                                     *)

SELECT == <<"S", "E", "L", "E", "C", "T">>

FORBIDDEN_KEYWORDS_dropped ==
    << <<"D", "R", "O", "P">>,
       <<"D", "E", "L", "E", "T", "E">>,
       <<"U", "P", "D", "A", "T", "E">>,
       <<"I", "N", "S", "E", "R", "T">>,
       <<"T", "R", "U", "N", "C", "A", "T", "E">>,
       <<"A", "L", "T", "E", "R">>,
       <<"C", "R", "E", "A", "T", "E">>,
       <<"G", "R", "A", "N", "T">> >>

FORBIDDEN_KEYWORDS ==
    << <<"D", "R", "O", "P">>,
       <<"D", "E", "L", "E", "T", "E">>,
       <<"U", "P", "D", "A", "T", "E">>,
       <<"I", "N", "S", "E", "R", "T">>,
       <<"T", "R", "U", "N", "C", "A", "T", "E">>,
       <<"A", "L", "T", "E", "R">>,
       <<"C", "R", "E", "A", "T", "E">>,
       <<"G", "R", "A", "N", "T">>,
       <<"R", "E", "V", "O", "K", "E">> >>

NoDetail == <<>>

\* The outcome of validate_query(query): it returns True, or raises
\* ValueError with one of two messages; the keyword named is the first of
\* FORBIDDEN_KEYWORDS found in the upper-cased, stripped text.
validate_query(query) ==
    LET query_upper == strip(upper(query))
        hits == {k \in 1..Len(FORBIDDEN_KEYWORDS) :
                    contains(query_upper, FORBIDDEN_KEYWORDS[k])}
    IN  IF ~startswith(query_upper, SELECT)
        THEN [ok |-> FALSE, exc |-> "ValueError",
              msg |-> "Only SELECT queries are permitted",
              detail |-> NoDetail]
        ELSE IF hits # {}
        THEN [ok |-> FALSE, exc |-> "ValueError",
              msg |-> "Forbidden operation detected: ",
              detail |-> FORBIDDEN_KEYWORDS[
                            CHOOSE k \in hits : \A j \in hits : k <= j]]
        ELSE [ok |-> TRUE, exc |-> "none", msg |-> "", detail |-> NoDetail]

----------------------------------------------------------------------------
(* The health-score rule, the CASE expression of the query of              *)
(* get_customer_health_score (server.py:283-289): first match wins.        *)

health_score_strict(open_tickets, high_priority_tickets) ==
    IF open_tickets = 0 THEN 100
    ELSE IF open_tickets < 2 /\ high_priority_tickets = 0 THEN 85
    ELSE IF open_tickets < 5 /\ high_priority_tickets <= 1 THEN 70
    ELSE IF high_priority_tickets >= 2 THEN 40
    ELSE 60

health_score(open_tickets, high_priority_tickets) ==
    IF open_tickets = 0 THEN 100
    ELSE IF open_tickets <= 2 /\ high_priority_tickets = 0 THEN 85
    ELSE IF open_tickets <= 5 /\ high_priority_tickets <= 1 THEN 70
    ELSE IF high_priority_tickets >= 2 THEN 40
    ELSE 60

----------------------------------------------------------------------------
(* The store: the PostgreSQL database behind DATABASE_URL.  A store state  *)
(* holds the rows of customers and support_tickets, the names of the       *)
(* tables of the public schema, and the clock NOW() reads.  Of the columns *)
(* only those the queries filter, group, count or order on are kept.       *)

Customer1 ==
    [id |-> 1, name |-> <<"A", "S", "M", "L">>,
     email |-> <<"i", "t", "@", "a", "s", "m", "l">>, mrr |-> 60000]

Customer2 ==
    [id |-> 2, name |-> <<"A", "c", "m", "e">>,
     email |-> <<"x", "@", "a", "c", "m", "e">>, mrr |-> 25000]

CustomerUniverse == {Customer1, Customer2}

TicketUniverse ==
    { [id |-> 1, customer_id |-> 1, status |-> "Open",
       priority |-> "High", created_at |-> 1],
      [id |-> 2, customer_id |-> 1, status |-> "In Progress",
       priority |-> "Low", created_at |-> 2],
      [id |-> 3, customer_id |-> 2, status |-> "Resolved",
       priority |-> "High", created_at |-> 3],
      [id |-> 4, customer_id |-> 2, status |-> "Open",
       priority |-> "High", created_at |-> 1] }

BaseTables == {"customers", "support_tickets"}

\* the table SELECT ... INTO B creates (PostgreSQL folds the name to lower case)
NewTable == "b"

\* every store whose tickets all belong to a customer of the store
Stores ==
    { st \in [customers : SUBSET CustomerUniverse,
              tickets : SUBSET TicketUniverse,
              tables : {BaseTables}, now : {10}] :
        \A t \in st.tickets : \E c \in st.customers : c.id = t.customer_id }

\* the store SpecConcurrent starts from
FullStore ==
    [customers |-> CustomerUniverse, tickets |-> TicketUniverse,
     tables |-> BaseTables, now |-> 10]

----------------------------------------------------------------------------
(* SQL helpers: LIKE / ILIKE patterns, aggregates, ORDER BY.               *)

\* s LIKE p, with % for any run of characters and _ for any one character
RECURSIVE like(_, _)
like(s, p) ==
    IF p = <<>> THEN s = <<>>
    ELSE IF Head(p) = "%"
         THEN like(s, Tail(p)) \/ (s # <<>> /\ like(Tail(s), p))
    ELSE IF s = <<>> THEN FALSE
    ELSE (Head(p) = "_" \/ Head(p) = Head(s)) /\ like(Tail(s), Tail(p))

\* s ILIKE p
ilike(s, p) == like(upper(s), upper(p))

Max(S) == CHOOSE x \in S : \A y \in S : y <= x

\* MAX(...) over a group: NULL (the empty sequence) for an empty group
MaxOrNull(S) == IF S = {} THEN <<>> ELSE <<Max(S)>>

\* every arrangement of the rows S; ORDER BY keeps those its keys allow, so
\* rows with equal keys come in any order
Perms(S) ==
    { s \in [1..Cardinality(S) -> S] :
        \A i, j \in 1..Cardinality(S) : i # j => s[i] # s[j] }

\* the rank of a priority in the text order ORDER BY t.priority uses
PriorityRank(p) ==
    IF p = "High" THEN 1 ELSE IF p = "Low" THEN 2 ELSE 3

OpenStatuses == {"Open", "In Progress"}

TicketsOf(st, c) == {t \in st.tickets : t.customer_id = c.id}

----------------------------------------------------------------------------
(* get_customer_info (server.py:106-148).                                  *)

\* f"%{search}%"
search_pattern(search) == <<"%">> \o search \o <<"%">>

customer_info_row(st, c) ==
    LET ts == TicketsOf(st, c)
    IN  [id |-> c.id, name |-> c.name, email |-> c.email, mrr |-> c.mrr,
         total_tickets |-> Cardinality(ts),
         open_tickets |-> Cardinality({t \in ts : t.status = "Open"}),
         in_progress_tickets |->
             Cardinality({t \in ts : t.status = "In Progress"}),
         high_priority_tickets |->
             Cardinality({t \in ts : t.priority = "High"}),
         last_ticket_date |-> MaxOrNull({t.created_at : t \in ts})]

customer_info_matches(st, search) ==
    { c \in st.customers :
        \/ ilike(c.name, search_pattern(search))
        \/ ilike(c.email, search_pattern(search)) }

\* ORDER BY c.mrr DESC: b is not to come in front of a
ByMrrDesc(a, b) == a.mrr > b.mrr

OrderByMrrDesc(S) ==
    { s \in Perms(S) :
        \A i, j \in 1..Len(s) : i < j => ~ByMrrDesc(s[j], s[i]) }

\* the row lists cur.fetchall() can give for the query of get_customer_info
customer_info_query(st, search) ==
    OrderByMrrDesc({customer_info_row(st, c) :
                       c \in customer_info_matches(st, search)})

not_found_message(search) ==
    <<"No customer found matching '">> \o search \o <<"'">>

customer_info_shape_passthrough(results, search) == results

\* lines 143-148: the sentinel for an empty result, the rows otherwise
customer_info_shape(results, search) ==
    IF results = <<>>
    THEN <<[message |-> not_found_message(search)]>>
    ELSE results

----------------------------------------------------------------------------
(* get_open_tickets (server.py:150-195).                                   *)

\* lines 183-186: params holds the priority when `if priority:` is true,
\* that is when the argument is neither None (<<>>) nor the empty string
open_tickets_params(priority) ==
    IF priority # <<>> /\ priority[1] # "" THEN <<priority[1]>> ELSE <<>>

open_ticket_row(st, t) ==
    LET c == CHOOSE c \in st.customers : c.id = t.customer_id
    IN  [id |-> t.id, status |-> t.status, priority |-> t.priority,
         created_at |-> t.created_at, customer_name |-> c.name,
         mrr |-> c.mrr, days_open |-> st.now - t.created_at]

ByPriorityDescCreatedAsc(a, b) ==
    \/ PriorityRank(a.priority) > PriorityRank(b.priority)
    \/ a.priority = b.priority /\ a.created_at < b.created_at

open_tickets_query(st, priority) ==
    LET params == open_tickets_params(priority)
        hit == { t \in st.tickets :
                   /\ \E c \in st.customers : c.id = t.customer_id
                   /\ t.status \in OpenStatuses
                   /\ params # <<>> => t.priority = params[1] }
    IN  { s \in Perms({open_ticket_row(st, t) : t \in hit}) :
            \A i, j \in 1..Len(s) :
                i < j => ~ByPriorityDescCreatedAsc(s[j], s[i]) }

----------------------------------------------------------------------------
(* get_at_risk_customers (server.py:197-242).                              *)

at_risk_row(st, c) ==
    LET ts == {t \in TicketsOf(st, c) : t.status \in OpenStatuses}
    IN  [name |-> c.name, email |-> c.email, mrr |-> c.mrr,
         open_ticket_count |-> Cardinality(ts),
         high_priority_count |->
             Cardinality({t \in ts : t.priority = "High"}),
         newest_ticket_date |-> Max({t.created_at : t \in ts}),
         oldest_ticket_age_days |-> Max({st.now - t.created_at : t \in ts})]

at_risk_query(st, min_mrr) ==
    OrderByMrrDesc({ at_risk_row(st, c) :
                       c \in { c \in st.customers :
                                 /\ c.mrr >= min_mrr
                                 /\ \E t \in TicketsOf(st, c) :
                                       t.status \in OpenStatuses } })

----------------------------------------------------------------------------
(* get_customer_health_score (server.py:244-302).                          *)

health_row(st, c) ==
    LET ts == TicketsOf(st, c)
        open_tickets == Cardinality({t \in ts : t.status \in OpenStatuses})
        high_priority_tickets == Cardinality({t \in ts : t.priority = "High"})
    IN  [id |-> c.id, name |-> c.name, mrr |-> c.mrr,
         total_tickets |-> Cardinality(ts),
         open_tickets |-> open_tickets,
         high_priority_tickets |-> high_priority_tickets,
         health_score |-> health_score(open_tickets, high_priority_tickets)]

\* cur.fetchone() on a query without ORDER BY: any one matching row, or
\* None (<<>>) when there is none; lines 298-302 shape it
health_score_results(st, customer_name) ==
    LET rows == { health_row(st, c) :
                    c \in { c \in st.customers :
                              ilike(c.name, search_pattern(customer_name)) } }
    IN  IF rows = {}
        THEN {[error |-> not_found_message(customer_name)]}
        ELSE rows

----------------------------------------------------------------------------
(* The resources (server.py:308-359).  A text is the sequence of the       *)
(* pieces the code concatenates.                                           *)

\* information_schema.columns of a table: name, type, is_nullable
Columns(t) ==
    IF t = "customers"
    THEN << <<"id", "integer", "NO">>, <<"name", "text", "NO">>,
            <<"email", "text", "YES">>, <<"mrr", "numeric", "YES">> >>
    ELSE IF t = "support_tickets"
    THEN << <<"id", "integer", "NO">>, <<"customer_id", "integer", "YES">>,
            <<"status", "text", "YES">>, <<"priority", "text", "YES">>,
            <<"created_at", "timestamp", "YES">> >>
    ELSE << <<"?column?", "integer", "YES">> >>

\* the table names in ORDER BY table_name order
TableOrder == <<"b", "customers", "support_tickets">>

RECURSIVE Flatten(_)
Flatten(ss) == IF ss = <<>> THEN <<>> ELSE Head(ss) \o Flatten(Tail(ss))

TablesSorted(st) == SelectSeq(TableOrder, LAMBDA t : t \in st.tables)

\* lines 331-342: one heading per table, one line per column
schema_text(st) ==
    <<"# Database Schema\n\n">> \o
    Flatten([k \in 1..Len(TablesSorted(st)) |->
        LET t == TablesSorted(st)[k]
        IN  <<"\n## Table: ", t, "\n\n">> \o
            Flatten([n \in 1..Len(Columns(t)) |->
                <<"- ", Columns(t)[n][1], ": ", Columns(t)[n][2], " (",
                  IF Columns(t)[n][3] = "YES" THEN "NULL" ELSE "NOT NULL",
                  ")\n">>])])

\* pg_size_pretty(pg_total_relation_size(...))
TableSize(t) == "16 kB"

\* line 359: "\n".join of one "- name (size)" per table
table_list_text(st) ==
    Flatten([k \in 1..Len(TablesSorted(st)) |->
        (IF k = 1 THEN <<>> ELSE <<"\n">>) \o
        <<"- ", TablesSorted(st)[k], " (", TableSize(TablesSorted(st)[k]), ")">>])

----------------------------------------------------------------------------
(* What the database does with the text query_database hands to            *)
(* cur.execute (server.py:101-102).  The statements of the text, split at  *)
(* ";", run in one transaction; the cursor keeps the result of the last.   *)
(* SELECT ... INTO creates a table and gives no rows, another SELECT gives *)
(* rows, DELETE empties support_tickets, anything else is an error.        *)

INTO == <<" ", "I", "N", "T", "O", " ">>

DELETE == <<"D", "E", "L", "E", "T", "E">>

RECURSIVE split(_, _)
split(s, sep) ==
    IF \A i \in 1..Len(s) : s[i] # sep THEN <<s>>
    ELSE LET i == CHOOSE i \in 1..Len(s) :
                    s[i] = sep /\ \A j \in 1..(i - 1) : s[j] # sep
         IN  <<SubSeq(s, 1, i - 1)>> \o split(SubSeq(s, i + 1, Len(s)), sep)

Statements(query) ==
    SelectSeq([k \in 1..Len(split(query, ";")) |->
                  strip(upper(split(query, ";")[k]))],
              LAMBDA stmt : stmt # <<>>)

NoEffect == [creates |-> {}, deletes |-> FALSE]

RECURSIVE run_statements(_, _, _)
run_statements(stmts, st, acc) ==
    IF stmts = <<>> \/ acc.error THEN acc
    ELSE LET stmt == Head(stmts)
         IN  IF startswith(stmt, SELECT) /\ contains(stmt, INTO)
             THEN run_statements(Tail(stmts), st,
                    [error |-> NewTable \in st.tables \cup acc.effect.creates,
                     rows |-> FALSE,
                     effect |-> [acc.effect EXCEPT !.creates = @ \cup {NewTable}]])
             ELSE IF startswith(stmt, SELECT)
             THEN run_statements(Tail(stmts), st, [acc EXCEPT !.rows = TRUE])
             ELSE IF startswith(stmt, DELETE)
             THEN run_statements(Tail(stmts), st,
                    [error |-> FALSE, rows |-> FALSE,
                     effect |-> [acc.effect EXCEPT !.deletes = TRUE]])
             ELSE [acc EXCEPT !.error = TRUE]

Commit(st, effect) ==
    [st EXCEPT !.tables = @ \cup effect.creates,
               !.tickets = IF effect.deletes THEN {} ELSE @]

----------------------------------------------------------------------------
(* Outcomes of a handler: the value it returns or the exception it raises. *)
(* An exception carries its message as msg followed by detail.             *)

NoOutcome ==
    [kind |-> "none", value |-> <<>>, exc |-> "none", msg |-> "",
     detail |-> NoDetail]

Return(v) ==
    [kind |-> "return", value |-> v, exc |-> "none", msg |-> "",
     detail |-> NoDetail]

Raise(exc, msg, detail) ==
    [kind |-> "raise", value |-> <<>>, exc |-> exc, msg |-> msg,
     detail |-> detail]

\* what psycopg2.connect raises when the database cannot be reached: the
\* message names the host and port of DATABASE_URL
ConnectDetail == <<"host=db.internal", "port=5432", "Connection refused">>

ConnectError ==
    Raise("OperationalError", "connection to server failed: ", ConnectDetail)

\* what cur.execute raises when the database fails during the query
ExecuteDetail == <<"server closed the connection unexpectedly">>

ExecuteError == Raise("OperationalError", "", ExecuteDetail)

\* lines 101-104: execute the text, fetch all rows
query_database_execution(st, query) ==
    LET r == run_statements(Statements(query), st,
                            [error |-> FALSE, rows |-> FALSE, effect |-> NoEffect])
    IN  IF r.error
        THEN [outcome |-> Raise("ProgrammingError", "statement failed", NoDetail),
              effect |-> NoEffect]
        ELSE IF ~r.rows
        THEN [outcome |-> Raise("ProgrammingError", "no results to fetch", NoDetail),
              effect |-> r.effect]
        ELSE [outcome |-> Return(<<[column1 |-> 1]>>), effect |-> r.effect]

ReadOnly(values) == {[outcome |-> Return(v), effect |-> NoEffect] : v \in values}

\* the body of each handler's `with conn.cursor()` block on store st: every
\* outcome, with the effect its statements have on the store when committed
Executions(call, st) ==
    IF call.tool = "query_database"
    THEN {query_database_execution(st, call.arg)}
    ELSE IF call.tool = "get_customer_info"
    THEN ReadOnly({customer_info_shape(rows, call.arg) :
                      rows \in customer_info_query(st, call.arg)})
    ELSE IF call.tool = "get_open_tickets"
    THEN ReadOnly(open_tickets_query(st, call.arg))
    ELSE IF call.tool = "get_at_risk_customers"
    THEN ReadOnly(at_risk_query(st, call.arg))
    ELSE IF call.tool = "get_customer_health_score"
    THEN ReadOnly(health_score_results(st, call.arg))
    ELSE IF call.tool = "postgres://schema"
    THEN ReadOnly({schema_text(st)})
    ELSE ReadOnly({table_list_text(st)})

----------------------------------------------------------------------------
(* Connections (server.py:43-54, and the `with` blocks of the handlers).   *)

\* a module-wide connection handed to every caller
shared_connection(openSet) == {1}

\* psycopg2.connect gives a new connection, none of those already open;
\* no id is left when MaxConns are open
new_connection(openSet) ==
    LET free == (1..MaxConns) \ openSet
    IN  IF free = {} THEN {}
        ELSE {CHOOSE id \in free : \A other \in free : id <= other}

\* leaving `with conn:` commits or rolls back the transaction of a psycopg2
\* connection and leaves the connection open
connection_exit(openSet, id) == openSet

\* conn.close()
connection_close(openSet, id) == openSet \ {id}

ConnectFailedLine ==
    [level |-> "ERROR", msg |-> "Database connection failed: ",
     detail |-> ConnectDetail]

ProbeFailedLine ==
    [level |-> "ERROR", msg |-> "Database connection test failed: ",
     detail |-> ConnectDetail]

----------------------------------------------------------------------------
(* The process: start-up probe (server.py:365-382).                        *)

on_probe_failure_ignored == [phase |-> "serving", exitCode |-> 0]

\* lines 374-376: log, exit(1)
on_probe_failure == [phase |-> "exited", exitCode |-> 1]

Idle ==
    [pc |-> "idle", tool |-> "", arg |-> <<>>, conn |-> 0,
     outcome |-> NoOutcome]

ServerInit ==
    /\ phase = "start"
    /\ exitCode = 0
    /\ probe = [made |-> 0, conn |-> 0, closed |-> FALSE]
    /\ open = {}
    /\ log = {}

\* line 371, get_db_connection() returning
ProbeConnect ==
    /\ phase = "start"
    /\ \E id \in new_connection(open) :
        /\ probe' = [made |-> probe.made + 1, conn |-> id, closed |-> FALSE]
        /\ open' = open \cup {id}
    /\ phase' = "probing"
    /\ UNCHANGED <<exitCode, store, inv, log, input, output>>

\* line 371 raising: lines 52-54, then lines 374-376
ProbeFail ==
    /\ phase = "start"
    /\ probe' = [probe EXCEPT !.made = @ + 1]
    /\ log' = log \cup {ConnectFailedLine, ProbeFailedLine}
    /\ phase' = on_probe_failure.phase
    /\ exitCode' = on_probe_failure.exitCode
    /\ UNCHANGED <<store, open, inv, input, output>>

\* lines 372-382: conn.close(), then mcp.run(...)
ProbeClose ==
    /\ phase = "probing"
    /\ open' = connection_close(open, probe.conn)
    /\ probe' = [probe EXCEPT !.closed = TRUE]
    /\ phase' = "serving"
    /\ UNCHANGED <<exitCode, store, inv, log, input, output>>

----------------------------------------------------------------------------
(* Invocations.  Call(i, c) is a handler from its first line to the        *)
(* connection it gets; Run(i) is the body of its `with` blocks, the exit   *)
(* from them and the return.                                               *)

Accepted == [ok |-> TRUE, exc |-> "none", msg |-> "", detail |-> NoDetail]

query_database_unchecked(query) == Accepted

\* line 97
query_database_entry(query) == validate_query(query)

Entry(call) ==
    IF call.tool = "query_database" THEN query_database_entry(call.arg)
    ELSE Accepted

Call(i, call) ==
    /\ phase = "serving"
    /\ inv[i].pc = "idle"
    /\ IF ~Entry(call).ok
       THEN /\ inv' = [inv EXCEPT ![i] =
                        [pc |-> "done", tool |-> call.tool, arg |-> call.arg,
                         conn |-> 0,
                         outcome |-> Raise(Entry(call).exc, Entry(call).msg,
                                           Entry(call).detail)]]
            /\ UNCHANGED <<open, log>>
       ELSE \E connected \in BOOLEAN :
              IF connected
              THEN \E id \in new_connection(open) :
                     /\ inv' = [inv EXCEPT ![i] =
                                 [pc |-> "open", tool |-> call.tool,
                                  arg |-> call.arg, conn |-> id,
                                  outcome |-> NoOutcome]]
                     /\ open' = open \cup {id}
                     /\ UNCHANGED log
              ELSE /\ inv' = [inv EXCEPT ![i] =
                               [pc |-> "done", tool |-> call.tool,
                                arg |-> call.arg, conn |-> 0,
                                outcome |-> ConnectError]]
                   /\ log' = log \cup {ConnectFailedLine}
                   /\ UNCHANGED open
    /\ UNCHANGED <<phase, exitCode, probe, store, input, output>>

Run(i) ==
    /\ inv[i].pc = "open"
    /\ \E dbfails \in BOOLEAN :
       \E e \in IF dbfails THEN {[outcome |-> ExecuteError, effect |-> NoEffect]}
                ELSE Executions([tool |-> inv[i].tool, arg |-> inv[i].arg], store) :
          /\ inv' = [inv EXCEPT ![i].pc = "done", ![i].outcome = e.outcome]
          /\ store' = IF e.outcome.kind = "return"
                      THEN Commit(store, e.effect)
                      ELSE store
    /\ open' = connection_exit(open, inv[i].conn)
    /\ UNCHANGED <<phase, exitCode, probe, log, input, output>>

\* the response leaves; the slot takes the next request
Deliver(i) ==
    /\ inv[i].pc = "done"
    /\ inv' = [inv EXCEPT ![i] = Idle]
    /\ UNCHANGED <<phase, exitCode, probe, store, open, log, input, output>>

Referenced(id) ==
    \/ phase = "probing" /\ probe.conn = id
    \/ \E i \in DOMAIN inv : inv[i].pc = "open" /\ inv[i].conn = id

\* the Python runtime reclaims a connection object nothing refers to any
\* more, at a time of its choosing; that closes the connection
Finalize(id) ==
    /\ id \in open
    /\ ~Referenced(id)
    /\ open' = connection_close(open, id)
    /\ UNCHANGED <<phase, exitCode, probe, store, inv, log, input, output>>

----------------------------------------------------------------------------
(* The requests the specifications send.                                   *)

Q_select == <<"S", "E", "L", "E", "C", "T", " ", "1">>

Q_padded == <<" ", " ", "s", "e", "l", "e", "c", "t", " ", "1", " ">>

Q_delete == <<"D", "E", "L", "E", "T", "E", " ", "F", "R", "O", "M", " ", "T">>

Q_chained ==
    <<"S", "E", "L", "E", "C", "T", " ", "1", ";", "D", "e", "l", "e", "t", "e",
      " ", "F", "R", "O", "M", " ", "T">>

Q_into ==
    <<"S", "E", "L", "E", "C", "T", " ", "1", " ", "I", "N", "T", "O", " ", "B">>

Q_into_select ==
    <<"S", "E", "L", "E", "C", "T", " ", "1", " ", "I", "N", "T", "O", " ", "B",
      ";", "S", "E", "L", "E", "C", "T", " ", "1">>

QueryTexts == {Q_select, Q_padded, Q_delete, Q_chained, Q_into, Q_into_select}

Searches ==
    { <<"a", "s", "m">>, <<"a">>, <<"z", "z">>, <<>>, <<"_", "c", "m">>,
      <<"@", "A", "C">> }

Priorities == { <<>>, <<"">>, <<"High">>, <<"Low">>, <<"Medium">> }

Calls ==
    {[tool |-> "query_database", arg |-> q] : q \in QueryTexts} \cup
    {[tool |-> "get_customer_info", arg |-> s] : s \in Searches} \cup
    {[tool |-> "get_open_tickets", arg |-> p] : p \in Priorities} \cup
    {[tool |-> "get_at_risk_customers", arg |-> m] : m \in {20000, 50000}} \cup
    {[tool |-> "get_customer_health_score", arg |-> s] :
        s \in {<<"a", "s", "m">>, <<"A">>, <<"z", "z">>}} \cup
    {[tool |-> "postgres://schema", arg |-> <<>>],
     [tool |-> "postgres://tables", arg |-> <<>>]}

ConcurrentCalls ==
    {[tool |-> "query_database", arg |-> q] : q \in {Q_select, Q_chained}} \cup
    {[tool |-> "get_open_tickets", arg |-> <<"High">>]}

----------------------------------------------------------------------------
(* Spec: the server from process start, one invocation at a time, over     *)
(* every store of Stores.                                                  *)

Init ==
    /\ ServerInit
    /\ store \in Stores
    /\ inv = [i \in {1} |-> Idle]
    /\ input = <<>>
    /\ output = <<>>

Next ==
    \/ ProbeConnect
    \/ ProbeFail
    \/ ProbeClose
    \/ \E i \in DOMAIN inv, call \in Calls : Call(i, call)
    \/ \E i \in DOMAIN inv : Run(i)
    \/ \E i \in DOMAIN inv : Deliver(i)
    \/ \E id \in 1..MaxConns : Finalize(id)

Spec == Init /\ [][Next]_vars

(* SpecConcurrent: the server with MaxCalls invocations in flight.         *)

InitConcurrent ==
    /\ ServerInit
    /\ store = FullStore
    /\ inv = [i \in 1..MaxCalls |-> Idle]
    /\ input = <<>>
    /\ output = <<>>

NextConcurrent ==
    \/ ProbeConnect
    \/ ProbeFail
    \/ ProbeClose
    \/ \E i \in DOMAIN inv, call \in ConcurrentCalls : Call(i, call)
    \/ \E i \in DOMAIN inv : Run(i)
    \/ \E i \in DOMAIN inv : Deliver(i)
    \/ \E id \in 1..MaxConns : Finalize(id)

SpecConcurrent == InitConcurrent /\ [][NextConcurrent]_vars

----------------------------------------------------------------------------
(* SpecValidate: validate_query applied to every text built from at most   *)
(* MaxFrags fragments.                                                     *)

Fragments ==
    { <<"S", "E", "L", "E", "C", "T">>,
      <<"s", "e", "l", "e", "c", "t">>,
      <<"S", "e", "l">>,
      <<"e", "c", "T">>,
      <<" ">>,
      <<"\n">>,
      <<"1">>,
      <<";">>,
      <<"D", "R", "O", "P">>,
      <<"D", "e", "l", "e">>,
      <<"t", "e">>,
      <<"u", "p", "d", "a", "t", "e">>,
      <<"I", "N", "S", "E", "R", "T">>,
      <<"t", "r", "u", "n", "c", "a", "t", "e">>,
      <<"a", "l", "t", "e", "r">>,
      <<"C", "r", "e", "a", "t", "e">>,
      <<"g", "r", "a", "n", "t">>,
      <<"R", "E", "V", "O", "K", "E">>,
      <<"I", "N", "T", "O">> }

RECURSIVE Concats(_)
Concats(n) ==
    IF n = 0 THEN {<<>>}
    ELSE LET shorter == Concats(n - 1)
         IN  shorter \cup {t \o f : t \in shorter, f \in Fragments}

InitValidate ==
    /\ ServerInit
    /\ store = FullStore
    /\ inv = <<>>
    /\ input \in Concats(MaxFrags)
    /\ output = <<>>

ApplyValidate ==
    /\ output = <<>>
    /\ output' = <<validate_query(input)>>
    /\ UNCHANGED <<input, serverVars>>

SpecValidate == InitValidate /\ [][ApplyValidate]_vars

----------------------------------------------------------------------------
(* SpecScore: the health-score rule applied to every pair of counts up to  *)
(* MaxTickets.                                                             *)

InitScore ==
    /\ ServerInit
    /\ store = FullStore
    /\ inv = <<>>
    /\ input \in [open_tickets : 0..MaxTickets,
                  high_priority_tickets : 0..MaxTickets]
    /\ output = <<>>

ApplyScore ==
    /\ output = <<>>
    /\ output' = <<health_score(input.open_tickets,
                                input.high_priority_tickets)>>
    /\ UNCHANGED <<input, serverVars>>

SpecScore == InitScore /\ [][ApplyScore]_vars

----------------------------------------------------------------------------
(* Claims about validate_query (SpecValidate) and the health score          *)
(* (SpecScore).                                                            *)

ClaimForbidden ==
    { <<"D", "R", "O", "P">>,
      <<"D", "E", "L", "E", "T", "E">>,
      <<"U", "P", "D", "A", "T", "E">>,
      <<"I", "N", "S", "E", "R", "T">>,
      <<"T", "R", "U", "N", "C", "A", "T", "E">>,
      <<"A", "L", "T", "E", "R">>,
      <<"C", "R", "E", "A", "T", "E">>,
      <<"G", "R", "A", "N", "T">>,
      <<"R", "E", "V", "O", "K", "E">> }

\* the text trimmed first and case-folded second, as the claim words it
Normalized(t) == upper(strip(t))

HasSubstring(s, p) ==
    \E i \in 1..Len(s) :
        i + Len(p) - 1 <= Len(s) /\ SubSeq(s, i, i + Len(p) - 1) = p

BeginsWithSelect(t) ==
    /\ Len(Normalized(t)) >= 6
    /\ \A i \in 1..6 : Normalized(t)[i] = SELECT[i]

\* C2: validate_query succeeds if and only if the trimmed, case-folded text
\* begins with SELECT and contains none of the nine forbidden keywords as a
\* substring; every other text fails with the InvalidQuery error (ValueError).
C2_ValidateIff ==
    output # <<>> =>
        /\ output[1].ok <=>
              (/\ BeginsWithSelect(input)
               /\ \A kw \in ClaimForbidden : ~HasSubstring(Normalized(input), kw))
        /\ ~output[1].ok => output[1].exc = "ValueError"

\* a SELECT in lower case between whitespace has been validated and accepted
C2_Witness ==
    /\ output # <<>>
    /\ input = <<" ">> \o <<"s", "e", "l", "e", "c", "t">> \o <<"\n">>
    /\ output[1].ok

\* C3: the health score of (open_tickets, high_priority_tickets) is the one of
\* the first matching rule; the five buckets written as disjoint regions, the
\* five sample pairs, and the range {100, 85, 70, 60, 40}.
C3_HealthScoreTable ==
    output # <<>> =>
        LET o == input.open_tickets
            h == input.high_priority_tickets
            s == output[1]
        IN  /\ s \in {100, 85, 70, 60, 40}
            /\ (s = 100) <=> (o = 0)
            /\ (s = 85) <=> (o \in 1..2 /\ h = 0)
            /\ (s = 70) <=> ((o \in 3..5 /\ h = 0) \/ (o \in 1..5 /\ h = 1))
            /\ (s = 40) <=> (o >= 1 /\ h >= 2)
            /\ (s = 60) <=> (o >= 6 /\ h <= 1)
            /\ (o = 0 /\ h = 5) => s = 100
            /\ (o = 1 /\ h = 0) => s = 85
            /\ (o = 4 /\ h = 1) => s = 70
            /\ (o = 3 /\ h = 2) => s = 40
            /\ (o = 6 /\ h = 1) => s = 60

C3_Witness ==
    /\ output = <<60>>
    /\ input.open_tickets = 6
    /\ input.high_priority_tickets = 1

----------------------------------------------------------------------------
(* Claims about the server (Spec, SpecConcurrent).                         *)

Range(seq) == {seq[k] : k \in 1..Len(seq)}

Done(i) == inv[i].pc = "done"

Returned(i, tool) ==
    Done(i) /\ inv[i].tool = tool /\ inv[i].outcome.kind = "return"

\* C1: no tool or resource invocation changes the store; in particular no
\* text validate_query accepts changes it when executed.
C1_StoreNeverMutated == [][store' = store]_vars

\* C4: whenever a priority p is supplied to get_open_tickets, every row
\* returned is Open or In Progress with priority p, and the rows are exactly
\* those rows of get_open_tickets() whose priority is p.
C4_PriorityFilterApplied ==
    \A i \in DOMAIN inv :
        (Returned(i, "get_open_tickets") /\ inv[i].arg # <<>>) =>
            LET p == inv[i].arg[1]
                rows == Range(inv[i].outcome.value)
                unfiltered == UNION {Range(r) : r \in open_tickets_query(store, <<>>)}
            IN  /\ \A r \in rows : r.status \in OpenStatuses /\ r.priority = p
                /\ rows = {r \in unfiltered : r.priority = p}

\* C5: when the connection or the query fails, the error the caller gets
\* carries a generic message, without the detail of the store's error.
C5_CallerMessageGeneric ==
    \A i \in DOMAIN inv :
        (Done(i) /\ inv[i].outcome.kind = "raise"
                 /\ inv[i].outcome.exc = "OperationalError") =>
            inv[i].outcome.detail = NoDetail

\* C6: get_customer_info never returns an empty list: the one-element
\* message list when no customer matches, the matching rows otherwise.
C6_CustomerInfoNeverEmpty ==
    \A i \in DOMAIN inv :
        Returned(i, "get_customer_info") =>
            LET v == inv[i].outcome.value
                search == inv[i].arg
                matching == customer_info_matches(store, search)
            IN  /\ v # <<>>
                /\ IF matching = {}
                   THEN /\ Len(v) = 1
                        /\ DOMAIN v[1] = {"message"}
                        /\ v[1].message =
                             <<"No customer found matching '">> \o search \o <<"'">>
                   ELSE /\ Len(v) = Cardinality(matching)
                        /\ Range(v) = {customer_info_row(store, c) : c \in matching}
                        /\ \A k \in 1..(Len(v) - 1) : v[k].mrr >= v[k + 1].mrr

\* a search that matches no customer has returned the message list
C6_Witness ==
    \E i \in DOMAIN inv :
        /\ Returned(i, "get_customer_info")
        /\ inv[i].arg = <<"z", "z">>
        /\ store.customers = CustomerUniverse
        /\ Len(inv[i].outcome.value) = 1

\* C7: exactly one probe is made at process start; a failed probe ends the
\* process with a non-zero status and no call is ever served; a call is
\* served only after the probe succeeded and its connection was closed.
C7_ProbeBeforeServing ==
    /\ probe.made <= 1
    /\ \A i \in DOMAIN inv :
          inv[i].pc # "idle" =>
              phase = "serving" /\ probe.made = 1 /\ probe.closed
    /\ phase = "serving" => probe.made = 1 /\ probe.closed
    /\ ProbeFailedLine \in log =>
          /\ phase = "exited"
          /\ exitCode # 0
          /\ \A i \in DOMAIN inv : inv[i].pc = "idle"

\* a call has been served after the probe's connection was closed
C7_Witness ==
    /\ phase = "serving"
    /\ probe.closed
    /\ \E i \in DOMAIN inv : Done(i) /\ inv[i].outcome.kind = "return"

\* C8: an invocation that acquired a connection has closed it when it ends,
\* on every exit path, and no connection is open once all have finished.
C8_ConnectionReleased ==
    /\ \A i \in DOMAIN inv :
          (Done(i) /\ inv[i].conn # 0) => inv[i].conn \notin open
    /\ (phase = "serving" /\ \A i \in DOMAIN inv : inv[i].pc = "idle") =>
          open = {}

\* C9: a query_database invocation whose text validate_query rejects ends
\* with the ValueError of the validator, having acquired no connection (and
\* so having executed nothing).
C9_ValidationBeforeStore ==
    \A i \in DOMAIN inv :
        (inv[i].pc # "idle" /\ inv[i].tool = "query_database"
                            /\ ~validate_query(inv[i].arg).ok) =>
            /\ Done(i)
            /\ inv[i].conn = 0
            /\ inv[i].outcome.kind = "raise"
            /\ inv[i].outcome.exc = "ValueError"

\* a text that hides DELETE behind a SELECT has been rejected
C9_Witness ==
    \E i \in DOMAIN inv :
        /\ Done(i)
        /\ inv[i].tool = "query_database"
        /\ inv[i].arg = Q_chained
        /\ inv[i].outcome.exc = "ValueError"

InFlight(i) == inv[i].pc = "open"

\* invocations in flight hold different connections, each of them open
OwnConnection ==
    \A i, j \in DOMAIN inv :
        /\ InFlight(i) => inv[i].conn \in open
        /\ (i # j /\ InFlight(i) /\ InFlight(j)) => inv[i].conn # inv[j].conn

\* a step in which invocation i fails changes neither the store nor any
\* other invocation, and leaves the others' connections open
FailureIsolated ==
    \A i \in DOMAIN inv :
        (~Done(i) /\ inv'[i].pc = "done" /\ inv'[i].outcome.kind = "raise") =>
            /\ store' = store
            /\ \A j \in DOMAIN inv \ {i} :
                  /\ inv'[j] = inv[j]
                  /\ InFlight(j) => inv[j].conn \in open'

\* a step in which invocation j returns gives a result of its own request on
\* the store as it is, whatever the other invocations did
ResultFromStoreAlone ==
    \A j \in DOMAIN inv :
        (InFlight(j) /\ inv'[j].pc = "done" /\ inv'[j].outcome.kind = "return") =>
            inv'[j].outcome \in
                {e.outcome : e \in Executions([tool |-> inv[j].tool,
                                               arg |-> inv[j].arg], store)}

====
